---- MODULE Spec2Model ----
(***************************************************************************)
(* India ETF vs GDP correlation pipeline.                                  *)
(*                                                                         *)
(* Two variants of the same pipeline are modelled:                         *)
(*   "script" : india_pearson.py  (batch script, matplotlib charts)        *)
(*   "app"    : streamlit_app.py  (dashboard)                              *)
(*                                                                         *)
(* Dates are day numbers of a model calendar with DaysPerQuarter days per  *)
(* quarter.  NaN / NaT in a column is the value Null, an integer outside   *)
(* the range of every date, value and rounded coefficient.  Prices and GDP *)
(* values are small integers; the input families are chosen so that every  *)
(* quarterly mean is an integer, and a correlation coefficient r is kept   *)
(* exactly, as its sign and the reduced fraction r^2 = p/q (q = 0: NaN).   *)
(***************************************************************************)
EXTENDS Integers, Sequences, FiniteSets, TLC

Null == -99999

\* ---- bounds of the model ------------------------------------------------
MaxQ == 10
NumETFs == 2
DaysPerQuarter == 2

\* ---- program constants --------------------------------------------------
MinOverlap == 8
window == 8
rolling_window == 8
ScriptDigits == 4
AppDigits == 3

\* ---- arithmetic helpers ---------------------------------------------------
Min(S) == CHOOSE x \in S : \A y \in S : x <= y
Max(S) == CHOOSE x \in S : \A y \in S : x >= y

RECURSIVE Gcd(_, _)
Gcd(a, b) == IF b = 0 THEN a ELSE Gcd(b, a % b)

RECURSIVE Pow10(_)
Pow10(d) == IF d = 0 THEN 1 ELSE 10 * Pow10(d - 1)

\* a/c <= d/b for a, d >= 0 and c, b > 0, by continued fractions (no product
\* is formed, so nothing exceeds the operands)
RECURSIVE LeqFrac(_, _, _, _)
LeqFrac(a, c, d, b) ==
    LET qa == a \div c
        qd == d \div b
        ra == a % c
        rd == d % b
    IN  IF qa # qd THEN qa < qd
        ELSE IF ra = 0 THEN TRUE
        ELSE IF rd = 0 THEN FALSE
        ELSE LeqFrac(b, rd, c, ra)

RECURSIVE SumSeq(_)
SumSeq(s) == IF s = <<>> THEN 0 ELSE Head(s) + SumSeq(Tail(s))

Column(rows, c) == [k \in DOMAIN rows |-> rows[k][c]]

\* ---- calendar -------------------------------------------------------------
QuarterOf(day) == ((day - 1) \div DaysPerQuarter) + 1
QuarterEnd(q) == q * DaysPerQuarter
QuarterStart(q) == (q - 1) * DaysPerQuarter + 1

\* ---- loader: coerce and drop unparseable rows ---------------------------
dropna(rows, cols) ==
    SelectSeq(rows, LAMBDA r : \A c \in cols : r[c] # Null)

\* ---- quarterly resampler: df.set_index('Date').resample('Q').mean() ------
\* One bin per calendar quarter from the quarter of the earliest row to the
\* quarter of the latest row; the mean of an empty bin is NaN.
resample(rows, col) ==
    IF rows = <<>> THEN <<>>
    ELSE LET qs == {QuarterOf(rows[k].Date) : k \in DOMAIN rows}
             lo == Min(qs)
             hi == Max(qs)
             bin(q) == SelectSeq(rows, LAMBDA r : QuarterOf(r.Date) = q)
             mean(b) == IF b = <<>> THEN Null
                        ELSE SumSeq(Column(b, col)) \div Len(b)
         IN  [k \in 1..(hi - lo + 1) |->
                ("Date" :> QuarterEnd(lo + k - 1)) @@
                (col :> mean(bin(lo + k - 1)))]

\* ---- aligner: pd.merge(left, right, on Date, how='inner') ----------------
\* how='left': every left row is kept, unmatched ones with NaN on the right
RECURSIVE merge_left(_, _)
merge_left(left, right) ==
    IF left = <<>> THEN <<>>
    ELSE LET l == Head(left)
             m == SelectSeq(right, LAMBDA r : r.Date = l.Date)
             rows == IF m = <<>>
                     THEN << l @@ [c \in {"Price", "GDP_USD"} |-> Null] >>
                     ELSE [k \in 1..Len(m) |-> l @@ m[k]]
         IN  rows \o merge_left(Tail(left), right)

RECURSIVE merge(_, _)
merge(left, right) ==
    IF left = <<>> THEN <<>>
    ELSE LET l == Head(left)
             m == SelectSeq(right, LAMBDA r : r.Date = l.Date)
         IN  [k \in 1..Len(m) |-> l @@ m[k]] \o merge(Tail(left), right)

\* ---- correlation engine -------------------------------------------------
\* Pearson r from the moment sums of n pairs: NaN for fewer than 2 pairs or a
\* constant column, else [sgn, p, q] with r = sgn * sqrt(p/q), p/q reduced.
NaNCorr == [sgn |-> 0, p |-> 0, q |-> 0]

FromSums(n, sx, sy, sxy, sxx, syy) ==
    LET num == n * sxy - sx * sy
        vx == n * sxx - sx * sx
        vy == n * syy - sy * sy
        p == num * num
        q == vx * vy
        g == Gcd(p, q)
    IN  IF n < 2 \/ vx = 0 \/ vy = 0 THEN NaNCorr
        ELSE IF num = 0 THEN [sgn |-> 0, p |-> 0, q |-> 1]
        ELSE [sgn |-> IF num > 0 THEN 1 ELSE -1, p |-> p \div g, q |-> q \div g]

Mul(xs, ys) == [k \in DOMAIN xs |-> xs[k] * ys[k]]

\* Series.corr(other, method='pearson'): pairs with a NaN on either side are
\* dropped, then the coefficient is taken over the remaining pairs
pearson(xs, ys) ==
    LET valid == SelectSeq([k \in DOMAIN xs |-> k],
                           LAMBDA k : xs[k] # Null /\ ys[k] # Null)
        x == [k \in DOMAIN valid |-> xs[valid[k]]]
        y == [k \in DOMAIN valid |-> ys[valid[k]]]
    IN  FromSums(Len(x), SumSeq(x), SumSeq(y), SumSeq(Mul(x, y)),
                 SumSeq(Mul(x, x)), SumSeq(Mul(y, y)))

\* Series.rank(): average rank of ties, kept doubled so that it is an integer
rank(xs) ==
    [k \in DOMAIN xs |->
        2 * Cardinality({j \in DOMAIN xs : xs[j] < xs[k]})
          + Cardinality({j \in DOMAIN xs : xs[j] = xs[k]}) + 1]

\* Series.corr(other, method='spearman'): Pearson of the ranks of the valid pairs
spearman(xs, ys) ==
    LET valid == SelectSeq([k \in DOMAIN xs |-> k],
                           LAMBDA k : xs[k] # Null /\ ys[k] # Null)
        x == [k \in DOMAIN valid |-> xs[valid[k]]]
        y == [k \in DOMAIN valid |-> ys[valid[k]]]
    IN  pearson(rank(x), rank(y))

\* round(r, digits), as the integer r * 10^digits rounded half to even
RECURSIVE FloorSearch(_, _, _, _, _)
FloorSearch(lo, hi, p, q, scale2) ==
    \* lo^2/scale2 <= p/q < hi^2/scale2
    IF hi = lo + 1 THEN lo
    ELSE LET mid == (lo + hi) \div 2
         IN  IF LeqFrac(mid * mid, scale2, p, q)
             THEN FloorSearch(mid, hi, p, q, scale2)
             ELSE FloorSearch(lo, mid, p, q, scale2)

round(r, digits) ==
    IF r.q = 0 THEN Null
    ELSE LET scale == Pow10(digits)
             k == FloorSearch(0, scale + 1, r.p, r.q, scale * scale)
             h == (2 * k + 1) * (2 * k + 1)
             below == LeqFrac(h, 4 * scale * scale, r.p, r.q)  \* k + 1/2 <= |r| * scale
             above == LeqFrac(r.p, r.q, h, 4 * scale * scale)  \* |r| * scale <= k + 1/2
             up == IF below /\ above THEN k % 2 = 1 ELSE below
         IN  r.sgn * (IF up THEN k + 1 ELSE k)

\* window_aggregations.roll_sum: sliding add/remove over the last w entries up
\* to i, NaN entries skipped; nobs counts the observations in the window
RECURSIVE roll_sum(_, _, _)
roll_sum(v, w, i) ==
    IF i = 0 THEN [sum |-> 0, nobs |-> 0]
    ELSE LET prev == roll_sum(v, w, i - 1)
             add == IF v[i] # Null
                    THEN [sum |-> prev.sum + v[i], nobs |-> prev.nobs + 1]
                    ELSE prev
         IN  IF i > w /\ v[i - w] # Null
             THEN [sum |-> add.sum - v[i - w], nobs |-> add.nobs - 1]
             ELSE add

\* Series.rolling(w).corr(other): both series are first masked where either is
\* NaN, min_periods defaults to w, and the coefficient is taken from the
\* rolling moments
rolling_corr(xs, ys, w) ==
    LET ok(k) == xs[k] # Null /\ ys[k] # Null
        X == [k \in DOMAIN xs |-> IF ok(k) THEN xs[k] ELSE Null]
        Y == [k \in DOMAIN xs |-> IF ok(k) THEN ys[k] ELSE Null]
        XY == [k \in DOMAIN xs |-> IF ok(k) THEN xs[k] * ys[k] ELSE Null]
        XX == [k \in DOMAIN xs |-> IF ok(k) THEN xs[k] * xs[k] ELSE Null]
        YY == [k \in DOMAIN xs |-> IF ok(k) THEN ys[k] * ys[k] ELSE Null]
    IN  [i \in DOMAIN xs |->
            LET sx == roll_sum(X, w, i)
            IN  IF sx.nobs < w THEN NaNCorr
                ELSE FromSums(sx.nobs, sx.sum, roll_sum(Y, w, i).sum,
                              roll_sum(XY, w, i).sum, roll_sum(XX, w, i).sum,
                              roll_sum(YY, w, i).sum)]

\* spearman_corr(x): ranks of the window's prices against the ranks of the GDP
\* values at the same index labels
spearman_corr(m, lo, hi) ==
    spearman(SubSeq(Column(m, "Price"), lo, hi), SubSeq(Column(m, "GDP_USD"), lo, hi))

\* merged['Price'].rolling(window=w).apply(spearman_corr, raw=False)
rolling_apply(m, w) ==
    [i \in DOMAIN m |->
        IF roll_sum(Column(m, "Price"), w, i).nobs < w THEN NaNCorr
        ELSE spearman_corr(m, i - w + 1, i)]

\* ---- input files --------------------------------------------------------
Shapes == {"up", "zig", "flat"}

ShapePrice(shape, q) ==
    CASE shape = "up" -> q + 2
      [] shape = "zig" -> IF q % 2 = 0 THEN 2 ELSE 4
      [] OTHER -> 3

\* daily rows of one quarter: one row, or two rows around the same mean
QuarterRows(shape, q) ==
    LET v == ShapePrice(shape, q)
    IN  IF q % 3 = 0
        THEN << [Date |-> QuarterStart(q), Price |-> v - 1],
                [Date |-> QuarterEnd(q), Price |-> v + 1] >>
        ELSE << [Date |-> QuarterStart(q), Price |-> v] >>

\* rows of quarters q..inp.last; the gap quarter holds only an unparseable price
RECURSIVE EtfRowsFrom(_, _)
EtfRowsFrom(inp, q) ==
    IF q > inp.last THEN <<>>
    ELSE (IF q = inp.gap THEN << [Date |-> QuarterStart(q), Price |-> Null] >>
          ELSE QuarterRows(inp.shape, q)) \o EtfRowsFrom(inp, q + 1)

\* the ETF csv after to_datetime / to_numeric with errors='coerce'
EtfRows(inp) == << [Date |-> Null, Price |-> 1] >> \o EtfRowsFrom(inp, inp.first)

\* The files tried for each ETF: one that cannot be read, one without a Price
\* column, one with no parseable row, and files covering quarters first..last
\* of the calendar, optionally with quarter 4 lacking any parseable price.
EtfInputs ==
    {[file |-> f, first |-> 1, last |-> 0, gap |-> 0, shape |-> "flat"] :
        f \in {"read_error", "no_price", "ok"}}
    \cup {[file |-> "ok", first |-> 1, last |-> 1, gap |-> 0, shape |-> "up"],
          [file |-> "ok", first |-> 1, last |-> 5, gap |-> 4, shape |-> "zig"],
          [file |-> "ok", first |-> 3, last |-> MaxQ, gap |-> 0, shape |-> "up"],
          [file |-> "ok", first |-> 1, last |-> MaxQ, gap |-> 4, shape |-> "zig"]}
    \cup [file : {"ok"}, first : {1}, last : {MaxQ}, gap : {0}, shape : Shapes]

RECURSIVE GdpRowsFrom(_, _)
GdpRowsFrom(g, q) ==
    IF q > MaxQ THEN <<>>
    ELSE << [Date |-> QuarterEnd(q),
             GDP_USD |-> IF q = g.gap THEN Null ELSE q + 10] >> \o GdpRowsFrom(g, q + 1)

GdpRows(g) == GdpRowsFrom(g, g.first)

GdpInputs == {[first |-> 1, gap |-> 0], [first |-> 2, gap |-> 5]}

\* ---- state ----------------------------------------------------------------
VARIABLES
    variant,          \* "script" (india_pearson.py) or "app" (streamlit_app.py)
    pc,               \* "load_gdp", "loop", "done", "crashed"
    file,             \* position of the per-ETF loop in the list of files
    gdp_clean,        \* GDP rows after dropna
    gdp_df,           \* GDP resampled to quarters
    etf_clean,        \* rows of the current ETF after dropna
    etf_df,           \* current ETF resampled to quarters
    joined,           \* result of pd.merge for the current ETF
    merged,           \* the aligned frame the later steps of the iteration read
    results,          \* script: list of summary records
    correlations,     \* app: summary entries in insertion order
    rolling_pearson,  \* rolling Pearson of the current ETF (<<>>: not computed)
    rolling_spearman, \* rolling Spearman of the current ETF (<<>>: not computed)
    out,              \* messages printed / warnings shown, in order
    df_results,       \* script: frame handed to the summary bar chart
    cor_df            \* app: frame handed to the summary table

vars == <<variant, pc, file, gdp_clean, gdp_df, etf_clean, etf_df, joined, merged,
          results, correlations, rolling_pearson, rolling_spearman, out,
          df_results, cor_df>>

\* print(f"[...] {etf_name}: ...") / st.warning(...): a message naming the ETF
print_nothing(o, etf, reason) == o

print(o, etf, reason) == Append(o, [etf |-> etf, reason |-> reason])

Init ==
    /\ variant \in {"script", "app"}
    /\ pc = "load_gdp"
    /\ file = 1
    /\ gdp_clean = <<>>
    /\ gdp_df = <<>>
    /\ etf_clean = <<>>
    /\ etf_df = <<>>
    /\ joined = <<>>
    /\ merged = <<>>
    /\ results = <<>>
    /\ correlations = <<>>
    /\ rolling_pearson = <<>>
    /\ rolling_spearman = <<>>
    /\ out = <<>>
    /\ df_results = <<>>
    /\ cor_df = <<>>

\* the GDP file is read, cleaned and resampled once, before the loop
LoadGDP ==
    /\ pc = "load_gdp"
    /\ \E g \in GdpInputs :
          /\ gdp_clean' = dropna(GdpRows(g), {"Date", "GDP_USD"})
          /\ gdp_df' = resample(dropna(GdpRows(g), {"Date", "GDP_USD"}), "GDP_USD")
    /\ pc' = "loop"
    /\ UNCHANGED <<variant, file, etf_clean, etf_df, joined, merged, results,
                   correlations, rolling_pearson, rolling_spearman, out,
                   df_results, cor_df>>

\* One iteration of the script's loop over etf_files, as the values it leaves
\* behind.  plot_raises: one of the chart calls after results.append raises;
\* the except clause prints [ERROR] and the rolling series are never drawn.
ScriptBody(inp, plot_raises) ==
    LET clean == dropna(EtfRows(inp), {"Date", "Price"})
        q == resample(clean, "Price")
        j == merge(q, gdp_df)
        m == dropna(j, {"Price", "GDP_USD"})
        price == Column(m, "Price")
        gdp == Column(m, "GDP_USD")
        none == [etf_clean |-> <<>>, etf_df |-> <<>>, joined |-> <<>>,
                 merged |-> <<>>, results |-> results, out |-> out,
                 rolling_pearson |-> <<>>, rolling_spearman |-> <<>>]
        loaded == [none EXCEPT !.etf_clean = clean, !.etf_df = q, !.joined = j,
                               !.merged = m]
        row == [ETF |-> file,
                Pearson_Correlation |-> round(pearson(price, gdp), ScriptDigits),
                Quarters_Used |-> Len(m),
                Start |-> Min({m[k].Date : k \in DOMAIN m}),
                End |-> Max({m[k].Date : k \in DOMAIN m})]
        appended == [loaded EXCEPT !.results = Append(results, row)]
    IN  IF inp.file = "read_error"
        THEN [none EXCEPT !.out = print(out, file, "error")]
        ELSE IF inp.file = "no_price"
        THEN [none EXCEPT !.out = print(out, file, "missing_columns")]
        ELSE IF Len(m) < MinOverlap
        THEN [loaded EXCEPT !.out = print(out, file, "overlap")]
        ELSE IF plot_raises
        THEN [appended EXCEPT !.out = print(out, file, "error")]
        ELSE [appended EXCEPT
                !.rolling_pearson = rolling_corr(price, gdp, window),
                !.rolling_spearman = rolling_apply(m, window)]

ScriptIteration ==
    /\ variant = "script"
    /\ pc = "loop"
    /\ file <= NumETFs
    /\ \E inp \in EtfInputs, plot_raises \in BOOLEAN :
          LET b == ScriptBody(inp, plot_raises)
          IN  /\ etf_clean' = b.etf_clean
              /\ etf_df' = b.etf_df
              /\ joined' = b.joined
              /\ merged' = b.merged
              /\ results' = b.results
              /\ out' = b.out
              /\ rolling_pearson' = b.rolling_pearson
              /\ rolling_spearman' = b.rolling_spearman
    /\ file' = file + 1
    /\ UNCHANGED <<variant, pc, gdp_clean, gdp_df, correlations, df_results, cor_df>>

\* DataFrame.sort_values(by=..., ascending=False): NaN keys last
SortKey(row) == row.Pearson_Correlation

IsSortedDescending(s) ==
    \A k, l \in DOMAIN s : k < l => SortKey(s[k]) >= SortKey(s[l])

sort_values(s) ==
    {[k \in DOMAIN s |-> s[f[k]]] :
        f \in {g \in [DOMAIN s -> DOMAIN s] :
                 /\ \A a, b \in DOMAIN s : a # b => g[a] # g[b]
                 /\ IsSortedDescending([k \in DOMAIN s |-> s[g[k]]])}}

\* pd.DataFrame(results).sort_values(by="Pearson_Correlation", ...): a frame
\* built from an empty list has no such column and the lookup raises KeyError
ScriptSummary ==
    /\ variant = "script"
    /\ pc = "loop"
    /\ file = NumETFs + 1
    /\ IF results = <<>>
       THEN /\ pc' = "crashed"
            /\ UNCHANGED df_results
       ELSE /\ pc' = "done"
            /\ df_results' \in sort_values(results)
    /\ UNCHANGED <<variant, file, gdp_clean, gdp_df, etf_clean, etf_df, joined,
                   merged, results, correlations, rolling_pearson,
                   rolling_spearman, out, cor_df>>

\* One iteration of the app's loop over the *_daily.csv files of the data dir
AppBody(inp) ==
    LET clean == dropna(EtfRows(inp), {"Date", "Price"})
        q == resample(clean, "Price")
        m == merge(q, gdp_df)
        price == Column(m, "Price")
        gdp == Column(m, "GDP_USD")
        none == [etf_clean |-> <<>>, etf_df |-> <<>>, joined |-> <<>>,
                 merged |-> <<>>, correlations |-> correlations, out |-> out,
                 rolling_pearson |-> <<>>]
        loaded == [none EXCEPT !.etf_clean = clean, !.etf_df = q, !.joined = m,
                               !.merged = m]
    IN  IF inp.file \in {"read_error", "no_price"}
        THEN [none EXCEPT !.out = print(out, file, "load_failed")]
        ELSE IF m = <<>>
        THEN [loaded EXCEPT !.out = print(out, file, "no_overlap")]
        ELSE [loaded EXCEPT
                !.correlations = Append(correlations,
                                        [ETF |-> file,
                                         pearson |-> pearson(price, gdp),
                                         spearman |-> spearman(price, gdp)]),
                !.rolling_pearson = rolling_corr(price, gdp, rolling_window)]

AppIteration ==
    /\ variant = "app"
    /\ pc = "loop"
    /\ file <= NumETFs
    /\ \E inp \in EtfInputs :
          LET b == AppBody(inp)
          IN  /\ etf_clean' = b.etf_clean
              /\ etf_df' = b.etf_df
              /\ joined' = b.joined
              /\ merged' = b.merged
              /\ correlations' = b.correlations
              /\ out' = b.out
              /\ rolling_pearson' = b.rolling_pearson
    /\ file' = file + 1
    /\ UNCHANGED <<variant, pc, gdp_clean, gdp_df, results, rolling_spearman,
                   df_results, cor_df>>

\* pd.DataFrame.from_dict(correlations, orient="index").round(3)
AppSummary ==
    /\ variant = "app"
    /\ pc = "loop"
    /\ file = NumETFs + 1
    /\ cor_df' = [k \in DOMAIN correlations |->
                    [ETF |-> correlations[k].ETF,
                     pearson |-> round(correlations[k].pearson, AppDigits),
                     spearman |-> round(correlations[k].spearman, AppDigits)]]
    /\ pc' = "done"
    /\ UNCHANGED <<variant, file, gdp_clean, gdp_df, etf_clean, etf_df, joined,
                   merged, results, correlations, rolling_pearson,
                   rolling_spearman, out, df_results>>

Next ==
    \/ LoadGDP
    \/ ScriptIteration
    \/ ScriptSummary
    \/ AppIteration
    \/ AppSummary

Spec == Init /\ [][Next]_vars

\* ---- vocabulary of the properties ---------------------------------------
\* ETF e has an entry in the accumulating summary collection
Summarized(e) ==
    IF variant = "script"
    THEN \E k \in DOMAIN results : results[k].ETF = e
    ELSE \E k \in DOMAIN correlations : correlations[k].ETF = e

\* ETF e has a row in the frame handed to the summary chart / table
InFinal(e) ==
    IF variant = "script"
    THEN \E k \in DOMAIN df_results : df_results[k].ETF = e
    ELSE \E k \in DOMAIN cor_df : cor_df[k].ETF = e

\* a message naming ETF e and giving a reason has been emitted
Reasons == {"error", "missing_columns", "overlap", "load_failed", "no_overlap"}

Diagnosed(e) == \E k \in DOMAIN out : out[k].etf = e /\ out[k].reason \in Reasons

\* an exception of ETF e's processing was caught and logged
ErrorCaught(e) ==
    \E k \in DOMAIN out : out[k].etf = e /\ out[k].reason \in {"error", "load_failed"}

\* the iteration just finished recorded a correlation for its ETF
CorrelationReached == file > 1 /\ Summarized(file - 1)

Dates(s) == {s[k].Date : k \in DOMAIN s}
Rows(s) == {s[k] : k \in DOMAIN s}
HasNull(m) == \E k \in DOMAIN m : m[k].Price = Null \/ m[k].GDP_USD = Null

\* C1: whatever subset of the ETFs fails, the run goes through every ETF in
\* order and completes the final summary stage; no per-ETF failure aborts it.
C1_RunCompletes ==
    /\ pc # "crashed"
    /\ pc = "done" => file = NumETFs + 1

\* C2: at the end of the run, an ETF for which an error was caught and logged
\* at the loop boundary has no record in the summary collection.
C2_ErrorsExcluded ==
    pc = "done" => \A e \in 1..NumETFs : ErrorCaught(e) => ~InFinal(e)

\* C3: an ETF with fewer than 8 overlapping quarters never enters the summary
\* collection, and every summary record has quarters_used >= 8.
C3_MinOverlapEnforced ==
    /\ CorrelationReached => Len(merged) >= MinOverlap
    /\ \A k \in DOMAIN results : results[k].Quarters_Used >= MinOverlap

\* C4: every aligned record that reaches the correlation and derived-series
\* steps has both etf_price and gdp_usd non-null.
C4_AlignedNonNull ==
    CorrelationReached => ~HasNull(merged)

Constant(xs) == Cardinality({xs[k] : k \in DOMAIN xs}) = 1

RollingAsSpecified(series, w, coefficient(_, _)) ==
    /\ Len(series) = Len(merged)
    /\ \A i \in DOMAIN series :
          LET price == SubSeq(Column(merged, "Price"), i - w + 1, i)
              gdp == SubSeq(Column(merged, "GDP_USD"), i - w + 1, i)
          IN  IF i < w THEN series[i] = NaNCorr
              ELSE /\ series[i] = coefficient(price, gdp)
                   /\ (~Constant(price) /\ ~Constant(gdp)) => series[i] # NaNCorr

C6_RollingWindows ==
    /\ rolling_pearson # <<>> => RollingAsSpecified(rolling_pearson, window, pearson)
    /\ rolling_spearman # <<>> => RollingAsSpecified(rolling_spearman, window, spearman)

\* C7: the collection handed to the summary bar chart and to the summary table
\* is ordered by pearson_r descending (compared where both values are numeric).
Descending(keys) ==
    \A k, l \in DOMAIN keys :
        (k < l /\ keys[k] # Null /\ keys[l] # Null) => keys[k] >= keys[l]

C7_SummaryDescending ==
    pc = "done" =>
        /\ Descending(Column(df_results, "Pearson_Correlation"))
        /\ Descending(Column(cor_df, "pearson"))

\* C8: every ETF already processed is in the summary collection or has had a
\* message naming it emitted, and the message is emitted in the ETF's own loop
\* iteration; at the end every ETF is in the final summary or diagnosed.
C8_Diagnosed ==
    /\ [](/\ \A e \in 1..(file - 1) : Summarized(e) \/ Diagnosed(e)
          /\ pc = "done" => \A e \in 1..NumETFs : InFinal(e) \/ Diagnosed(e))
    /\ [][file' = file + 1 =>
            \/ \E k \in DOMAIN results' : results'[k].ETF = file
            \/ \E k \in DOMAIN correlations' : correlations'[k].ETF = file
            \/ /\ Len(out') = Len(out) + 1
               /\ out'[Len(out')].etf = file
               /\ out'[Len(out')].reason \in Reasons]_vars

\* the run ended with an ETF left out of the final summary and diagnosed
C8_Witness ==
    /\ pc = "done"
    /\ \E e \in 1..NumETFs : ~InFinal(e) /\ Diagnosed(e)

\* C9: with fewer than 2 aligned records no correlation value, null or
\* otherwise, is recorded in the summary for that ETF.
C9_NoCorrelationBelowTwo ==
    (file > 1 /\ Len(merged) < 2) => ~Summarized(file - 1)

\* C10: the resampler emits a quarter only if a cleaned observation falls in
\* it (no entry, not even a null one, for skipped quarters), and empty input
\* gives empty output.
OnlyObservedQuarters(clean, quarterly) ==
    /\ \A k \in DOMAIN quarterly :
          \E j \in DOMAIN clean : QuarterEnd(QuarterOf(clean[j].Date)) = quarterly[k].Date
    /\ clean = <<>> => quarterly = <<>>

C10_OnlyObservedQuarters ==
    /\ OnlyObservedQuarters(etf_clean, etf_df)
    /\ OnlyObservedQuarters(gdp_clean, gdp_df)

====
